---- MODULE Spec2Model ----
(***************************************************************************)
(* Voxel storage core of Procedurking: Voxel, WorldChunk (hybrid dense /   *)
(* sparse storage), SparseVoxelOctree and VoxelWorldManager with its       *)
(* asynchronous chunk-loading worker threads.                              *)
(*                                                                         *)
(* Sizes are scaled: the source has CHUNK_SIZE = 64 and an octree of depth *)
(* 20; the model keeps the code's arithmetic and loops and runs them on a  *)
(* CHUNK_SIZE^3 chunk and an octree of depth SVO_DEPTH.                    *)
(***************************************************************************)
EXTENDS Integers, Sequences, FiniteSets, TLC

VARIABLES
    \* --- a single WorldChunk driven directly (SpecChunk) ---
    chunk,          \* the WorldChunk object
    hist,           \* history: the last two operations applied to chunk and the chunk before each
    chunkOps,       \* number of operations applied to chunk
    \* --- VoxelWorldManager (Spec, FairSpec) ---
    activeChunks,   \* activeChunks: ChunkPos -> chunk object id
    heap,           \* chunk objects alive (shared_ptr<WorldChunk>): id -> WorldChunk
    svo,            \* svoStorage
    loadingQueue,   \* std::queue<ChunkLoadTask>
    shouldStop,     \* std::atomic<bool>
    loadingThreads, \* ids of the threads in loadingThreads (started, not yet cleared)
    wpc,            \* position of each worker thread in chunkLoadingWorker
    wtask,          \* the task a worker has dequeued
    stats,          \* Statistics counters
    cpc,            \* position of the calling (main) thread inside a manager operation
    carg,           \* arguments of the operation the main thread is in
    opCount,        \* number of manager operations started
    nextId,         \* next chunk object id
    ghost,          \* history of the run the properties are stated over
    \* --- a SparseVoxelOctree driven directly (SpecSVO) ---
    tree,           \* the SparseVoxelOctree object
    treeHist,       \* history: the last operation applied to tree and the tree before it
    \* --- a MaterialPalette driven directly (SpecPalette) ---
    materials,      \* std::vector<Material> materials
    palHist,        \* history: the outcome of the last addMaterial call
    \* --- the coordinate conversions applied to drawn inputs (SpecCoord) ---
    coord           \* the inputs drawn and the values computed from them

chunkVars == <<chunk, hist, chunkOps>>
mgrVars == <<activeChunks, heap, svo, loadingQueue, shouldStop, loadingThreads,
             wpc, wtask, stats, cpc, carg, opCount, nextId, ghost>>
unitVars == <<tree, treeHist, materials, palHist, coord>>
vars == <<chunk, hist, chunkOps, activeChunks, heap, svo, loadingQueue, shouldStop,
          loadingThreads, wpc, wtask, stats, cpc, carg, opCount, nextId, ghost,
          tree, treeHist, materials, palHist, coord>>

----------------------------------------------------------------------------
\* Bounds of the model

\* WorldChunk::CHUNK_SIZE, scaled (64 in the source)
CHUNK_SIZE == 2
\* depth of the manager's octree, scaled (SparseVoxelOctree(20) in the source)
SVO_DEPTH == 2
\* operations applied to the directly driven chunk
MaxChunkOps == 5
\* manager operations started by the main thread
MaxOps == 3
\* worker threads started by setLoadingThreadCount, scaled (4 in the source)
NumWorkers == 2

\* width of int32_t, scaled (32 in the source)
INT_BITS == 4
\* largest chunk size the coordinate conversions are applied with
MaxCoordSize == 3
\* loadDistance(300.0f), unloadDistance(500.0f) and maxActiveChunks(1000),
\* scaled to the chunk size
loadDistance == 1
unloadDistance == 2
maxActiveChunks == 1

CHUNK_VOLUME == CHUNK_SIZE * CHUNK_SIZE * CHUNK_SIZE

----------------------------------------------------------------------------
\* Program constants

\* MaterialPalette::StandardMaterials
AIR == 0
STONE == 1
DIRT == 2
CUSTOM_START == 32
\* capacity tested by MaterialPalette::addMaterial
MAX_MATERIALS == 255

\* WorldChunk::State, in declaration order (compared with < and >=)
UNLOADED == 0
LOADING == 1
ACTIVE == 2
DIRTY_MESH == 3
DIRTY_PHYSICS == 4
DIRTY_STRUCTURE == 5
States == UNLOADED..DIRTY_STRUCTURE

\* ChunkLoadTask::Priority
LOW == 0
NORMAL == 1
HIGH == 2
URGENT == 3

----------------------------------------------------------------------------
\* C++ integer division and remainder (truncation toward zero)

CDiv(a, b) == IF a >= 0 THEN a \div b ELSE -((-a) \div b)
CMod(a, b) == a - b * CDiv(a, b)

----------------------------------------------------------------------------
\* Voxel

\* Voxel(mat, hp): flags(0), structuralSupport(255)
Voxel(mat, hp) ==
    [materialID |-> mat, health |-> hp, flags |-> 0, structuralSupport |-> 255]

\* Voxel(): materialID(0), health(255)
VoxelDefault == Voxel(AIR, 255)

\* static const Voxel airVoxel(MaterialPalette::AIR, 0)
airVoxel == Voxel(AIR, 0)

----------------------------------------------------------------------------
\* VoxelPos, ChunkPos

VoxelPos(x, y, z) == <<x, y, z>>

\* ChunkPos(const VoxelPos&, int32_t chunkSize)
ChunkPosOf(voxelPos, chunkSize) ==
    <<CDiv(voxelPos[1], chunkSize), CDiv(voxelPos[2], chunkSize), CDiv(voxelPos[3], chunkSize)>>

\* the mutation: toVoxelPos returns the last voxel of the chunk, not its origin
toVoxelPos_lastVoxel(chunkPos, chunkSize) ==
    <<chunkPos[1] * chunkSize + (chunkSize - 1),
      chunkPos[2] * chunkSize + (chunkSize - 1),
      chunkPos[3] * chunkSize + (chunkSize - 1)>>

\* ChunkPos::toVoxelPos
toVoxelPos(chunkPos, chunkSize) ==
    <<chunkPos[1] * chunkSize, chunkPos[2] * chunkSize, chunkPos[3] * chunkSize>>

\* pos.x % CHUNK_SIZE, pos.y % CHUNK_SIZE, pos.z % CHUNK_SIZE
LocalPosOf(pos) ==
    VoxelPos(CMod(pos[1], CHUNK_SIZE), CMod(pos[2], CHUNK_SIZE), CMod(pos[3], CHUNK_SIZE))

\* the order in which the triple loops over x, y, z (z innermost) visit a chunk
LoopSeq ==
    [i \in 1..CHUNK_VOLUME |->
        <<(i - 1) \div (CHUNK_SIZE * CHUNK_SIZE),
          ((i - 1) \div CHUNK_SIZE) % CHUNK_SIZE,
          (i - 1) % CHUNK_SIZE>>]

LocalPositions == {LoopSeq[i] : i \in 1..CHUNK_VOLUME}

----------------------------------------------------------------------------
\* WorldChunk

EmptyMap == [p \in {} |-> airVoxel]

\* WorldChunk::WorldChunk
WorldChunk(position) ==
    [position |-> position, state |-> UNLOADED, isDense |-> FALSE,
     hasDense |-> FALSE, denseStorage |-> EmptyMap,
     hasSparse |-> TRUE, sparseStorage |-> EmptyMap]

isValidLocalPos(localPos) ==
    /\ localPos[1] >= 0 /\ localPos[1] < CHUNK_SIZE
    /\ localPos[2] >= 0 /\ localPos[2] < CHUNK_SIZE
    /\ localPos[3] >= 0 /\ localPos[3] < CHUNK_SIZE

getIndex(localPos) ==
    localPos[1] + localPos[2] * CHUNK_SIZE + localPos[3] * CHUNK_SIZE * CHUNK_SIZE

WorldChunk_getVoxel(c, localPos) ==
    IF ~isValidLocalPos(localPos) THEN airVoxel
    ELSE IF c.isDense /\ c.hasDense THEN c.denseStorage[getIndex(localPos)]
    ELSE IF c.hasSparse /\ localPos \in DOMAIN c.sparseStorage THEN c.sparseStorage[localPos]
    ELSE airVoxel

\* unordered_map::erase / operator[]=
MapErase(m, k) == [p \in (DOMAIN m) \ {k} |-> m[p]]
MapPut(m, k, v) == [p \in (DOMAIN m) \cup {k} |-> IF p = k THEN v ELSE m[p]]

\* the mutation: Air voxels are stored in the sparse map like any other
WorldChunk_setVoxel_keepAir(c, localPos, voxel) ==
    IF ~isValidLocalPos(localPos) THEN c
    ELSE LET stored ==
                IF c.isDense /\ c.hasDense
                THEN [c EXCEPT !.denseStorage[getIndex(localPos)] = voxel]
                ELSE IF c.hasSparse
                THEN [c EXCEPT !.sparseStorage = MapPut(c.sparseStorage, localPos, voxel)]
                ELSE c
         IN IF stored.state = ACTIVE THEN [stored EXCEPT !.state = DIRTY_MESH] ELSE stored

\* the mutation: setVoxel() without the range check on localPos
WorldChunk_setVoxel_noRangeCheck(c, localPos, voxel) ==
    LET stored ==
            IF c.isDense /\ c.hasDense
            THEN IF getIndex(localPos) \in DOMAIN c.denseStorage
                 THEN [c EXCEPT !.denseStorage[getIndex(localPos)] = voxel]
                 ELSE c
            ELSE IF c.hasSparse
            THEN IF voxel.materialID = AIR
                 THEN [c EXCEPT !.sparseStorage = MapErase(c.sparseStorage, localPos)]
                 ELSE [c EXCEPT !.sparseStorage = MapPut(c.sparseStorage, localPos, voxel)]
            ELSE c
    IN IF stored.state = ACTIVE THEN [stored EXCEPT !.state = DIRTY_MESH] ELSE stored

\* the mutation: setVoxel() stores the voxel and leaves the state alone
WorldChunk_setVoxel_noDirty(c, localPos, voxel) ==
    IF ~isValidLocalPos(localPos) THEN c
    ELSE IF c.isDense /\ c.hasDense
    THEN [c EXCEPT !.denseStorage[getIndex(localPos)] = voxel]
    ELSE IF c.hasSparse
    THEN IF voxel.materialID = AIR
         THEN [c EXCEPT !.sparseStorage = MapErase(c.sparseStorage, localPos)]
         ELSE [c EXCEPT !.sparseStorage = MapPut(c.sparseStorage, localPos, voxel)]
    ELSE c

\* the mutation: an Air write in sparse mode overwrites the entry with the Air
\* sentinel instead of erasing it
WorldChunk_setVoxel_airEntry(c, localPos, voxel) ==
    IF ~isValidLocalPos(localPos) THEN c
    ELSE LET stored ==
                IF c.isDense /\ c.hasDense
                THEN [c EXCEPT !.denseStorage[getIndex(localPos)] = voxel]
                ELSE IF c.hasSparse
                THEN IF voxel.materialID = AIR
                     THEN [c EXCEPT !.sparseStorage = MapPut(c.sparseStorage, localPos, airVoxel)]
                     ELSE [c EXCEPT !.sparseStorage = MapPut(c.sparseStorage, localPos, voxel)]
                ELSE c
         IN IF stored.state = ACTIVE THEN [stored EXCEPT !.state = DIRTY_MESH] ELSE stored

WorldChunk_setVoxel(c, localPos, voxel) ==
    IF ~isValidLocalPos(localPos) THEN c
    ELSE LET stored ==
                IF c.isDense /\ c.hasDense
                THEN [c EXCEPT !.denseStorage[getIndex(localPos)] = voxel]
                ELSE IF c.hasSparse
                THEN IF voxel.materialID = AIR
                     THEN [c EXCEPT !.sparseStorage = MapErase(c.sparseStorage, localPos)]
                     ELSE [c EXCEPT !.sparseStorage = MapPut(c.sparseStorage, localPos, voxel)]
                ELSE c
         IN IF stored.state = ACTIVE THEN [stored EXCEPT !.state = DIRTY_MESH] ELSE stored

\* the mutation: compress() keeps the Air cells of the dense array
WorldChunk_compress_keepAir(c) ==
    IF ~c.isDense \/ ~c.hasDense THEN c
    ELSE [c EXCEPT !.hasDense = FALSE, !.denseStorage = EmptyMap,
                   !.hasSparse = TRUE,
                   !.sparseStorage = [p \in LocalPositions |-> c.denseStorage[getIndex(p)]],
                   !.isDense = FALSE]

WorldChunk_compress(c) ==
    IF ~c.isDense \/ ~c.hasDense THEN c
    ELSE LET kept == {p \in LocalPositions : c.denseStorage[getIndex(p)].materialID # AIR}
         IN [c EXCEPT !.hasDense = FALSE, !.denseStorage = EmptyMap,
                      !.hasSparse = TRUE,
                      !.sparseStorage = [p \in kept |-> c.denseStorage[getIndex(p)]],
                      !.isDense = FALSE]

\* the position a dense index belongs to (WorldChunk::getLocalPos)
getLocalPos(index) ==
    <<index % CHUNK_SIZE,
      (index % (CHUNK_SIZE * CHUNK_SIZE)) \div CHUNK_SIZE,
      index \div (CHUNK_SIZE * CHUNK_SIZE)>>

WorldChunk_decompress(c) ==
    IF c.isDense \/ ~c.hasSparse THEN c
    ELSE LET valid == {p \in DOMAIN c.sparseStorage : isValidLocalPos(p)}
             cell(i) == IF \E p \in valid : getIndex(p) = i
                        THEN c.sparseStorage[CHOOSE p \in valid : getIndex(p) = i]
                        ELSE Voxel(AIR, 0)
         IN [c EXCEPT !.hasSparse = FALSE, !.sparseStorage = EmptyMap,
                      !.hasDense = TRUE,
                      !.denseStorage = [i \in 0..(CHUNK_VOLUME - 1) |-> cell(i)],
                      !.isDense = TRUE]

\* WorldChunk::isDirty, needsMeshUpdate, needsPhysicsUpdate,
\* needsStructuralAnalysis
isDirty(c) == c.state >= DIRTY_MESH
needsMeshUpdate(c) == c.state = DIRTY_MESH \/ c.state = DIRTY_PHYSICS
needsPhysicsUpdate(c) == c.state = DIRTY_PHYSICS \/ c.state = DIRTY_STRUCTURE
needsStructuralAnalysis(c) == c.state = DIRTY_STRUCTURE

\* getVoxel at every local position of the chunk
Content(c) == [p \in LocalPositions |-> WorldChunk_getVoxel(c, p)]

----------------------------------------------------------------------------
\* A WorldChunk driven directly through its public interface

\* local positions the calls are made with: two corners of the chunk and two
\* positions outside [0, CHUNK_SIZE)^3
CallPositions ==
    {<<0, 0, 0>>, <<CHUNK_SIZE - 1, CHUNK_SIZE - 1, CHUNK_SIZE - 1>>,
     <<-1, 0, 0>>, <<0, CHUNK_SIZE, 0>>}

\* voxels the calls are made with: differing in each of the four fields
CallVoxels ==
    {Voxel(AIR, 0), VoxelDefault, Voxel(STONE, 255), Voxel(DIRT, 0),
     [materialID |-> STONE, health |-> 255, flags |-> 1, structuralSupport |-> 7],
     [materialID |-> AIR, health |-> 0, flags |-> 1, structuralSupport |-> 255]}

NoHist == [op |-> "none", prevOp |-> "none", pos |-> <<0, 0, 0>>, voxel |-> airVoxel,
           before |-> WorldChunk(<<0, 0, 0>>), before2 |-> WorldChunk(<<0, 0, 0>>)]

Record(op, pos, voxel) ==
    hist' = [op |-> op, prevOp |-> hist.op, pos |-> pos, voxel |-> voxel,
             before |-> chunk, before2 |-> hist.before]

InitChunk ==
    /\ chunk = WorldChunk(<<0, 0, 0>>)
    /\ hist = NoHist
    /\ chunkOps = 0

ChunkSetVoxel ==
    /\ chunkOps < MaxChunkOps
    /\ \E p \in CallPositions, v \in CallVoxels :
          /\ chunk' = WorldChunk_setVoxel(chunk, p, v)
          /\ Record("setVoxel", p, v)
    /\ chunkOps' = chunkOps + 1
    /\ UNCHANGED <<mgrVars, unitVars>>

ChunkSetState ==
    /\ chunkOps < MaxChunkOps
    /\ \E s \in States :
          /\ chunk' = [chunk EXCEPT !.state = s]
          /\ Record("setState", <<0, 0, 0>>, airVoxel)
    /\ chunkOps' = chunkOps + 1
    /\ UNCHANGED <<mgrVars, unitVars>>

ChunkCompress ==
    /\ chunkOps < MaxChunkOps
    /\ chunk' = WorldChunk_compress(chunk)
    /\ Record("compress", <<0, 0, 0>>, airVoxel)
    /\ chunkOps' = chunkOps + 1
    /\ UNCHANGED <<mgrVars, unitVars>>

ChunkDecompress ==
    /\ chunkOps < MaxChunkOps
    /\ chunk' = WorldChunk_decompress(chunk)
    /\ Record("decompress", <<0, 0, 0>>, airVoxel)
    /\ chunkOps' = chunkOps + 1
    /\ UNCHANGED <<mgrVars, unitVars>>

----------------------------------------------------------------------------
\* SVONode, SparseVoxelOctree.  A node is named by its path from the root
\* (the child indices followed); a child exists iff its path is in the domain.

\* SVONode::SVONode
SVONode(lvl) ==
    [childMask |-> 0, materialID |-> 0, level |-> lvl, isLeaf |-> TRUE,
     isUniform |-> TRUE, hasChildren |-> FALSE]

hasChild(node, index) == (node.childMask \div (2 ^ index)) % 2 = 1
setChild(node, index) ==
    IF hasChild(node, index) THEN node
    ELSE [node EXCEPT !.childMask = node.childMask + 2 ^ index]

\* SparseVoxelOctree::SparseVoxelOctree
SparseVoxelOctree(maxDepth) ==
    [maxDepth |-> maxDepth, worldSize |-> 2 ^ maxDepth,
     nodes |-> [p \in {<<>>} |-> SVONode(maxDepth)]]

getNodeSize(level) == 2 ^ level

getChildIndex(pos, level) ==
    LET nodeSize == getNodeSize(level - 1)
    IN (IF pos[1] >= nodeSize THEN 1 ELSE 0)
       + (IF pos[2] >= nodeSize THEN 2 ELSE 0)
       + (IF pos[3] >= nodeSize THEN 4 ELSE 0)

\* SVONode::createChild on the node at path
createChild(nodes, path, index) ==
    LET parent == nodes[path]
        child == SVONode((parent.level - 1) % 256)
        childPath == Append(path, index)
    IN [q \in (DOMAIN nodes) \cup {childPath} |->
            IF q = childPath THEN child
            ELSE IF q = path
                 THEN [setChild(parent, index) EXCEPT !.hasChildren = TRUE]
                 ELSE nodes[q]]

\* the loop of findNode from `level` down, standing at the node `path`;
\* the result is the tree after the call and the node returned (found = FALSE: nullptr)
RECURSIVE findNodeLoop(_, _, _, _, _)
findNodeLoop(nodes, pos, level, path, createPath) ==
    IF level <= 0 THEN [nodes |-> nodes, found |-> TRUE, path |-> path]
    ELSE
      LET current == nodes[path]
      IN IF current.isLeaf /\ ~(createPath /\ level > 1)
         THEN [nodes |-> nodes, found |-> TRUE, path |-> path]
         ELSE
           LET nodes1 == IF current.isLeaf
                         THEN [nodes EXCEPT ![path].isLeaf = FALSE,
                                            ![path].hasChildren = TRUE]
                         ELSE nodes
               childIndex == getChildIndex(pos, level)
               childPath == Append(path, childIndex)
           IN IF ~hasChild(nodes1[path], childIndex)
              THEN IF createPath
                   THEN findNodeLoop(createChild(nodes1, path, childIndex), pos,
                                     level - 1, childPath, createPath)
                   ELSE [nodes |-> nodes1, found |-> FALSE, path |-> path]
              ELSE IF childPath \in DOMAIN nodes1
                   THEN findNodeLoop(nodes1, pos, level - 1, childPath, createPath)
                   ELSE [nodes |-> nodes1, found |-> FALSE, path |-> path]

findNode(s, pos, createPath) == findNodeLoop(s.nodes, pos, s.maxDepth, <<>>, createPath)

SVO_getVoxel(s, pos) ==
    LET r == findNode(s, pos, FALSE)
    IN IF ~r.found THEN Voxel(AIR, 0)
       ELSE IF r.nodes[r.path].isLeaf /\ r.nodes[r.path].isUniform
            THEN Voxel(r.nodes[r.path].materialID, 255)
            ELSE Voxel(AIR, 0)

SVO_setVoxel(s, pos, voxel) ==
    IF \/ pos[1] < 0 \/ pos[1] >= s.worldSize
       \/ pos[2] < 0 \/ pos[2] >= s.worldSize
       \/ pos[3] < 0 \/ pos[3] >= s.worldSize
    THEN s
    ELSE LET r == findNode(s, pos, TRUE)
         IN IF ~r.found THEN [s EXCEPT !.nodes = r.nodes]
            ELSE IF r.nodes[r.path].isLeaf
                 THEN [s EXCEPT !.nodes = [r.nodes EXCEPT ![r.path].materialID = voxel.materialID,
                                                          ![r.path].isUniform = TRUE]]
                 ELSE [s EXCEPT !.nodes = r.nodes]

WorldPosOf(chunkOrigin, p) ==
    VoxelPos(chunkOrigin[1] + p[1], chunkOrigin[2] + p[2], chunkOrigin[3] + p[3])

\* the loops of loadChunkData from the i-th position on
RECURSIVE loadChunkLoop(_, _, _, _)
loadChunkLoop(s, chunkOrigin, c, i) ==
    IF i > CHUNK_VOLUME THEN c
    ELSE LET voxel == SVO_getVoxel(s, WorldPosOf(chunkOrigin, LoopSeq[i]))
         IN loadChunkLoop(s, chunkOrigin,
                          IF voxel.materialID # AIR
                          THEN WorldChunk_setVoxel(c, LoopSeq[i], voxel)
                          ELSE c,
                          i + 1)

loadChunkData(s, chunkPos, c) ==
    loadChunkLoop(s, toVoxelPos(chunkPos, CHUNK_SIZE), c, 1)

\* the loops of storeChunkData from the i-th position on
RECURSIVE storeChunkLoop(_, _, _, _)
storeChunkLoop(s, chunkOrigin, c, i) ==
    IF i > CHUNK_VOLUME THEN s
    ELSE storeChunkLoop(
            SVO_setVoxel(s, WorldPosOf(chunkOrigin, LoopSeq[i]),
                         WorldChunk_getVoxel(c, LoopSeq[i])),
            chunkOrigin, c, i + 1)

storeChunkData(s, chunkPos, c) ==
    storeChunkLoop(s, toVoxelPos(chunkPos, CHUNK_SIZE), c, 1)

\* SVONode::getChild: the child exists (not nullptr)
getChild(nodes, path, index) ==
    hasChild(nodes[path], index) /\ nodes[path].hasChildren
       /\ Append(path, index) \in DOMAIN nodes

\* the children SVONode::getChild returns for the node at path, in index order
ChildIndices(nodes, path) == {i \in 0..7 : getChild(nodes, path, i)}

\* SparseVoxelOctree::canMergeNode
canMergeNode(nodes, path) ==
    LET node == nodes[path]
        present == {i \in 0..7 : hasChild(node, i)}
    IN /\ ~node.isLeaf /\ node.hasChildren
       /\ \A i \in present :
             /\ getChild(nodes, path, i)
             /\ nodes[Append(path, i)].isLeaf /\ nodes[Append(path, i)].isUniform
       /\ \A i \in present, j \in present :
             nodes[Append(path, i)].materialID = nodes[Append(path, j)].materialID
       /\ present # {}

\* path is a proper prefix of q: q names a descendant of the node at path
IsDescendant(path, q) ==
    Len(q) > Len(path) /\ SubSeq(q, 1, Len(path)) = path

\* SparseVoxelOctree::mergeUniformChildren on the node at path: the children
\* first (index order), then the node itself
RECURSIVE mergeUniformChildren(_, _)
RECURSIVE mergeChildrenLoop(_, _, _)
mergeChildrenLoop(nodes, path, i) ==
    IF i > 7 THEN nodes
    ELSE mergeChildrenLoop(
            IF getChild(nodes, path, i)
            THEN mergeUniformChildren(nodes, Append(path, i))
            ELSE nodes,
            path, i + 1)

mergeUniformChildren(nodes, path) ==
    IF nodes[path].isLeaf THEN nodes
    ELSE LET nodes1 == IF nodes[path].hasChildren
                       THEN mergeChildrenLoop(nodes, path, 0)
                       ELSE nodes
         IN IF canMergeNode(nodes1, path)
            THEN LET first == CHOOSE i \in ChildIndices(nodes1, path) :
                                 \A j \in ChildIndices(nodes1, path) : i <= j
                     uniformMaterial == IF ChildIndices(nodes1, path) = {} THEN AIR
                                        ELSE nodes1[Append(path, first)].materialID
                 IN [q \in {r \in DOMAIN nodes1 : ~IsDescendant(path, r)} |->
                        IF q = path
                        THEN [nodes1[path] EXCEPT !.hasChildren = FALSE, !.childMask = 0,
                                                  !.isLeaf = TRUE, !.isUniform = TRUE,
                                                  !.materialID = uniformMaterial]
                        ELSE nodes1[q]]
            ELSE nodes1

\* SparseVoxelOctree::compress
SVO_compress(s) == [s EXCEPT !.nodes = mergeUniformChildren(s.nodes, <<>>)]

\* SparseVoxelOctree::optimize
SVO_optimize(s) == SVO_compress(s)

\* SparseVoxelOctree::getNodeCount: "return 1000; // Placeholder"
getNodeCount(s) == 1000


----------------------------------------------------------------------------
\* The directly driven WorldChunk loaded from an octree

\* octrees the chunk is loaded from: empty, and with the leaf of the chunk's
\* origin set to Stone or to Air
SvoSamples ==
    {SparseVoxelOctree(SVO_DEPTH)}
       \cup {SVO_setVoxel(SparseVoxelOctree(SVO_DEPTH), <<0, 0, 0>>, v) :
                v \in {Voxel(STONE, 255), Voxel(AIR, 0)}}

ChunkLoadChunkData ==
    /\ chunkOps < MaxChunkOps
    /\ \E s \in SvoSamples :
          /\ chunk' = loadChunkData(s, chunk.position, chunk)
          /\ Record("loadChunkData", <<0, 0, 0>>, airVoxel)
    /\ chunkOps' = chunkOps + 1
    /\ UNCHANGED <<mgrVars, unitVars>>

----------------------------------------------------------------------------
\* A SparseVoxelOctree driven directly through its public interface

\* positions the calls are made with: one in each octant of the root and two
\* outside [0, worldSize)^3
SvoCallPositions ==
    {<<x, y, z>> : x \in {0, 2 ^ (SVO_DEPTH - 1)}, y \in {0, 2 ^ (SVO_DEPTH - 1)},
                   z \in {0, 2 ^ (SVO_DEPTH - 1)}}
       \cup {<<-1, 0, 0>>, <<0, 2 ^ SVO_DEPTH, 0>>}

SvoCallVoxels == {Voxel(AIR, 0), Voxel(STONE, 255)}

\* every position of the world [0, worldSize)^3
WorldPositions ==
    {<<x, y, z>> : x \in 0..(2 ^ SVO_DEPTH - 1), y \in 0..(2 ^ SVO_DEPTH - 1),
                   z \in 0..(2 ^ SVO_DEPTH - 1)}

NoTreeHist == [op |-> "none", pos |-> <<0, 0, 0>>, voxel |-> airVoxel,
               before |-> SparseVoxelOctree(SVO_DEPTH)]

InitSVO ==
    /\ tree = SparseVoxelOctree(SVO_DEPTH)
    /\ treeHist = NoTreeHist

SvoSetVoxel ==
    /\ \E p \in SvoCallPositions, v \in SvoCallVoxels :
          /\ tree' = SVO_setVoxel(tree, p, v)
          /\ treeHist' = [op |-> "setVoxel", pos |-> p, voxel |-> v, before |-> tree]
    /\ UNCHANGED <<chunkVars, mgrVars, materials, palHist, coord>>

SvoOptimize ==
    /\ tree' = SVO_optimize(tree)
    /\ treeHist' = [op |-> "optimize", pos |-> <<0, 0, 0>>, voxel |-> airVoxel,
                    before |-> tree]
    /\ UNCHANGED <<chunkVars, mgrVars, materials, palHist, coord>>

----------------------------------------------------------------------------
\* MaterialPalette

\* the materials pushed by initializeStandardMaterials, in order
StandardMaterials ==
    <<"Air", "Stone", "Dirt", "Grass", "Sand", "Water", "Wood", "Metal", "Lava",
      "Ice", "Snow", "Coal", "Oil">>

\* MaterialPalette::MaterialPalette
MaterialPalette == StandardMaterials

\* MaterialPalette::getMaterialCount
getMaterialCount(m) == Len(m)

\* the mutation: addMaterial without the capacity check
addMaterial_noLimit(m, material) ==
    [materials |-> Append(m, material), threw |-> FALSE, id |-> Len(m) % 256]

\* MaterialPalette::addMaterial: the palette after the call, whether it threw
\* and the uint8_t returned
addMaterial(m, material) ==
    IF Len(m) >= MAX_MATERIALS
    THEN [materials |-> m, threw |-> TRUE, id |-> 0]
    ELSE [materials |-> Append(m, material), threw |-> FALSE,
          id |-> (Len(Append(m, material)) - 1) % 256]

NoPalHist == [op |-> "none", threw |-> FALSE, id |-> 0, before |-> MaterialPalette]

InitPalette ==
    /\ materials = MaterialPalette
    /\ palHist = NoPalHist

PaletteAddMaterial ==
    /\ LET r == addMaterial(materials, "Custom")
       IN /\ materials' = r.materials
          /\ palHist' = [op |-> "addMaterial", threw |-> r.threw, id |-> r.id,
                         before |-> materials]
    /\ UNCHANGED <<chunkVars, mgrVars, tree, treeHist, coord>>

----------------------------------------------------------------------------
\* The coordinate conversions applied to drawn inputs.  int32_t is scaled to
\* INT_BITS bits; signed overflow and division by zero are undefined.

INT_MIN == -(2 ^ (INT_BITS - 1))
INT_MAX == 2 ^ (INT_BITS - 1) - 1
IntRange == INT_MIN..INT_MAX

\* the value a wrapping build leaves in an int32_t
Wrap(n) == ((n - INT_MIN) % (2 ^ INT_BITS)) + INT_MIN

CoordPositions == {<<x, y, z>> : x \in IntRange, y \in IntRange, z \in IntRange}
CoordSizes == 0..MaxCoordSize

\* c.toVoxelPos(S) stays within int32_t
NoOverflow(c, S) == \A i \in 1..3 : c[i] * S \in IntRange

\* what ChunkPos(c.toVoxelPos(S), S) can evaluate to: the value computed when
\* it is defined; when the product overflows, the wrapped value or (the
\* division folded with the multiplication) c itself; a trap (no value) when
\* S = 0
InverseOutcomes(c, S) ==
    IF S = 0 THEN {[trapped |-> TRUE, value |-> <<0, 0, 0>>]}
    ELSE IF NoOverflow(c, S)
    THEN {[trapped |-> FALSE, value |-> ChunkPosOf(toVoxelPos(c, S), S)]}
    ELSE {[trapped |-> FALSE, value |-> c],
          [trapped |-> FALSE,
           value |-> ChunkPosOf(<<Wrap(c[1] * S), Wrap(c[2] * S), Wrap(c[3] * S)>>, S)]}

NoCoord == [op |-> "none", p |-> <<0, 0, 0>>, S |-> 1, chunkPos |-> <<0, 0, 0>>,
            localPos |-> <<0, 0, 0>>, back |-> <<0, 0, 0>>, trapped |-> FALSE]

InitCoord == coord = NoCoord

\* the inputs of one evaluation are drawn: a position (or chunk position) and
\* a chunk size
CoordDraw ==
    /\ coord.op = "none"
    /\ \E p \in CoordPositions, S \in CoordSizes :
          coord' = [NoCoord EXCEPT !.op = "drawn", !.p = p, !.S = S]
    /\ UNCHANGED <<chunkVars, mgrVars, tree, treeHist, materials, palHist>>

\* ChunkPos chunkPos(p, S) and the manager's local position of p
CoordResolve ==
    /\ coord.op = "drawn" /\ coord.S # 0
    /\ coord' = [coord EXCEPT !.op = "resolve",
                              !.chunkPos = ChunkPosOf(coord.p, coord.S),
                              !.localPos = LocalPosOf(coord.p)]
    /\ UNCHANGED <<chunkVars, mgrVars, tree, treeHist, materials, palHist>>

\* ChunkPos(c.toVoxelPos(S), S) for the chunk position c drawn
CoordInverse ==
    /\ coord.op = "drawn"
    /\ \E b \in InverseOutcomes(coord.p, coord.S) :
          coord' = [coord EXCEPT !.op = "inverse", !.chunkPos = coord.p,
                                    !.back = b.value, !.trapped = b.trapped]
    /\ UNCHANGED <<chunkVars, mgrVars, tree, treeHist, materials, palHist>>

----------------------------------------------------------------------------
\* VoxelWorldManager: state helpers

Workers == 1..NumWorkers

NoTask == [position |-> <<0, 0, 0>>, chunk |-> 0, priority |-> LOW]
NoArg == [pos |-> <<0, 0, 0>>, voxel |-> airVoxel, chunk |-> 0, n |-> 0]

\* ChunkLoadTask::ChunkLoadTask
ChunkLoadTask(pos, c, p) == [position |-> pos, chunk |-> c, priority |-> p]

\* queueMutex is held by a worker from the evaluation of the wait predicate
\* until it blocks on queueCondition
MutexFree == \A w \in loadingThreads : wpc[w] # "prewait"

\* VoxelWorldManager::getChunk (0: nullptr)
getChunk(pos) == IF pos \in DOMAIN activeChunks THEN activeChunks[pos] ELSE 0

\* VoxelWorldManager::getVoxel
Manager_getVoxel(pos) ==
    LET chunkPos == ChunkPosOf(pos, CHUNK_SIZE)
    IN IF getChunk(chunkPos) = 0 THEN Voxel(AIR, 0)
       ELSE WorldChunk_getVoxel(heap[getChunk(chunkPos)], LocalPosOf(pos))

\* VoxelWorldManager::getDirtyChunks
getDirtyChunks(minDirtyLevel) ==
    {pos \in DOMAIN activeChunks : heap[activeChunks[pos]].state >= minDirtyLevel}

\* queueCondition.notify_one(): the worker pcs it can leave behind
NotifyOne(pcs) ==
    LET blocked == {w \in loadingThreads : pcs[w] = "blocked"}
    IN IF blocked = {} THEN {pcs} ELSE {[pcs EXCEPT ![w] = "lock"] : w \in blocked}

\* queueCondition.notify_all()
NotifyAll(pcs) == [w \in DOMAIN pcs |-> IF pcs[w] = "blocked" THEN "lock" ELSE pcs[w]]

\* chunk objects some shared_ptr still points to
Live(table, queue, tasks) ==
    {table[p] : p \in DOMAIN table}
      \cup {queue[i].chunk : i \in 1..Len(queue)}
      \cup {tasks[w].chunk : w \in DOMAIN tasks}
Prune(h, table, queue, tasks) ==
    [i \in (DOMAIN h) \cap Live(table, queue, tasks) |-> h[i]]

\* tasks in the loading queue or held by a worker that has not finished with them
QueuedTasks == {loadingQueue[i] : i \in 1..Len(loadingQueue)}
RunningTasks == {wtask[w] : w \in {x \in loadingThreads : wpc[x] \in {"load", "activate"}}}
InFlight == QueuedTasks \cup RunningTasks

----------------------------------------------------------------------------
\* History kept for the properties

NoScenario == [stage |-> 0, pos |-> <<0, 0, 0>>, voxel |-> airVoxel, id |-> 0]
NoWrite == [valid |-> FALSE, pos |-> <<0, 0, 0>>, voxel |-> airVoxel]

InitGhost ==
    [lastOp |-> "none", lastPos |-> <<0, 0, 0>>, wasResident |-> FALSE,
     lastWrite |-> NoWrite, scen |-> NoScenario,
     written |-> {}, enqueued |-> {}, completed |-> {}, carried |-> {}]

\* a manager operation `op` on `pos` starts
Started(g, op, pos) ==
    [g EXCEPT !.lastOp = op, !.lastPos = pos,
              !.wasResident = (pos \in DOMAIN activeChunks),
              !.lastWrite = NoWrite]

----------------------------------------------------------------------------
\* VoxelWorldManager: the constructed manager

InitMgr ==
    /\ activeChunks = EmptyMap
    /\ heap = EmptyMap
    /\ svo = SparseVoxelOctree(SVO_DEPTH)
    /\ loadingQueue = <<>>
    /\ shouldStop = FALSE
    /\ loadingThreads = Workers
    /\ wpc = [w \in Workers |-> "top"]
    /\ wtask = [w \in Workers |-> NoTask]
    /\ stats = [activeChunks |-> 0, loadedChunks |-> 0, pendingLoads |-> 0]
    /\ cpc = "idle"
    /\ carg = NoArg
    /\ opCount = 0
    /\ nextId = 1
    /\ ghost = InitGhost

Init == InitChunk /\ InitMgr /\ InitSVO /\ InitPalette /\ InitCoord

----------------------------------------------------------------------------
\* VoxelWorldManager: operations of the calling thread

\* positions, voxels, chunks and priorities the calls are made with
MgrPositions == {<<0, 0, 0>>, <<CHUNK_SIZE - 1, CHUNK_SIZE - 1, CHUNK_SIZE - 1>>, <<CHUNK_SIZE, 0, 0>>}
MgrVoxels == {Voxel(STONE, 255), Voxel(DIRT, 255)}
MgrChunks == {<<0, 0, 0>>, <<1, 0, 0>>}
MgrPriorities == {NORMAL, HIGH}

CanStart == cpc = "idle" /\ opCount < MaxOps /\ MutexFree

\* the body of loadChunk for a position that is not resident: createChunk,
\* insert into activeChunks, push the task, pendingLoads++, notify_one
loadChunkInsert(pos, priority) ==
    /\ activeChunks' = MapPut(activeChunks, pos, nextId)
    /\ heap' = MapPut(heap, nextId, WorldChunk(pos))
    /\ loadingQueue' = Append(loadingQueue, ChunkLoadTask(pos, nextId, priority))
    /\ stats' = [stats EXCEPT !.pendingLoads = stats.pendingLoads + 1]
    /\ nextId' = nextId + 1
    /\ wpc' \in NotifyOne(wpc)

\* VoxelWorldManager::loadChunk
LoadChunk ==
    /\ CanStart
    /\ \E pos \in MgrChunks, priority \in MgrPriorities :
          /\ IF pos \in DOMAIN activeChunks
             THEN UNCHANGED <<activeChunks, heap, loadingQueue, stats, nextId, wpc>>
             ELSE loadChunkInsert(pos, priority)
          /\ ghost' = [Started(ghost, "loadChunk", pos) EXCEPT
                 !.enqueued = IF pos \in DOMAIN activeChunks THEN @ ELSE @ \cup {nextId},
                 !.scen = IF ghost.scen.stage = 2 /\ pos = ChunkPosOf(ghost.scen.pos, CHUNK_SIZE)
                          THEN [ghost.scen EXCEPT !.stage = 3, !.id = nextId]
                          ELSE NoScenario]
    /\ opCount' = opCount + 1
    /\ UNCHANGED <<svo, shouldStop, loadingThreads, wtask, cpc, carg>>
    /\ UNCHANGED <<chunkVars, unitVars>>

\* VoxelWorldManager::setVoxel up to the chunk handle: getChunk, and
\* loadChunk(chunkPos, URGENT) when the chunk is not resident
SetVoxelBegin ==
    /\ CanStart
    /\ \E pos \in MgrPositions, voxel \in MgrVoxels :
          LET chunkPos == ChunkPosOf(pos, CHUNK_SIZE)
          IN /\ IF chunkPos \in DOMAIN activeChunks
                THEN UNCHANGED <<activeChunks, heap, loadingQueue, stats, nextId, wpc>>
                ELSE loadChunkInsert(chunkPos, URGENT)
             /\ carg' = [NoArg EXCEPT !.pos = pos, !.voxel = voxel,
                                      !.chunk = activeChunks'[chunkPos]]
             /\ ghost' = [Started(ghost, "setVoxel", chunkPos) EXCEPT
                    !.enqueued = IF chunkPos \in DOMAIN activeChunks THEN @ ELSE @ \cup {nextId},
                    !.scen = NoScenario]
    /\ cpc' = "sv_write"
    /\ opCount' = opCount + 1
    /\ UNCHANGED <<svo, shouldStop, loadingThreads, wtask>>
    /\ UNCHANGED <<chunkVars, unitVars>>

\* the mutation: setVoxel writes the voxel through to the SVO as well
SetVoxelWrite_writeThrough ==
    /\ cpc = "sv_write"
    /\ heap' = [heap EXCEPT ![carg.chunk] =
                    WorldChunk_setVoxel(heap[carg.chunk], LocalPosOf(carg.pos), carg.voxel)]
    /\ svo' = SVO_setVoxel(svo, carg.pos, carg.voxel)
    /\ cpc' = "sv_mark"
    /\ UNCHANGED <<activeChunks, loadingQueue, shouldStop, loadingThreads, wpc, wtask,
                   stats, carg, opCount, nextId, ghost>>
    /\ UNCHANGED <<chunkVars, unitVars>>

\* VoxelWorldManager::setVoxel: chunk->setVoxel(localPos, voxel), no lock held
SetVoxelWrite ==
    /\ cpc = "sv_write"
    /\ heap' = [heap EXCEPT ![carg.chunk] =
                    WorldChunk_setVoxel(heap[carg.chunk], LocalPosOf(carg.pos), carg.voxel)]
    /\ cpc' = "sv_mark"
    /\ UNCHANGED <<activeChunks, svo, loadingQueue, shouldStop, loadingThreads, wpc, wtask,
                   stats, carg, opCount, nextId, ghost>>
    /\ UNCHANGED <<chunkVars, unitVars>>

\* VoxelWorldManager::markChunkDirty on the heap
markChunkDirty(h, pos, dirtyType) ==
    IF getChunk(pos) # 0 /\ h[getChunk(pos)].state < dirtyType
    THEN [h EXCEPT ![getChunk(pos)].state = dirtyType]
    ELSE h

\* VoxelWorldManager::setVoxel: markChunkDirty(chunkPos, DIRTY_MESH), and return
SetVoxelMark ==
    /\ cpc = "sv_mark"
    /\ MutexFree
    /\ LET chunkPos == ChunkPosOf(carg.pos, CHUNK_SIZE)
       IN /\ heap' = markChunkDirty(heap, chunkPos, DIRTY_MESH)
          /\ ghost' = [ghost EXCEPT
                 !.lastWrite = [valid |-> TRUE, pos |-> carg.pos, voxel |-> carg.voxel],
                 !.written = @ \cup {chunkPos},
                 !.scen = IF carg.voxel.materialID # AIR /\ carg.voxel = Voxel(carg.voxel.materialID, 255)
                          THEN [stage |-> 1, pos |-> carg.pos, voxel |-> carg.voxel, id |-> 0]
                          ELSE NoScenario]
    /\ cpc' = "idle"
    /\ carg' = NoArg
    /\ UNCHANGED <<activeChunks, svo, loadingQueue, shouldStop, loadingThreads, wpc, wtask,
                   stats, opCount, nextId>>
    /\ UNCHANGED <<chunkVars, unitVars>>

\* VoxelWorldManager::unloadChunk
UnloadChunk ==
    /\ CanStart
    /\ \E pos \in MgrChunks :
          /\ IF pos \in DOMAIN activeChunks
             THEN /\ svo' = storeChunkData(svo, pos, heap[activeChunks[pos]])
                  /\ activeChunks' = MapErase(activeChunks, pos)
                  /\ stats' = [stats EXCEPT !.activeChunks = stats.activeChunks - 1]
                  /\ heap' = Prune(heap, activeChunks', loadingQueue, wtask)
             ELSE UNCHANGED <<svo, activeChunks, stats, heap>>
          /\ ghost' = [Started(ghost, "unloadChunk", pos) EXCEPT
                 !.written = @ \ {pos},
                 !.scen = IF ghost.scen.stage = 1 /\ pos = ChunkPosOf(ghost.scen.pos, CHUNK_SIZE)
                          THEN [ghost.scen EXCEPT !.stage = 2]
                          ELSE NoScenario]
    /\ opCount' = opCount + 1
    /\ UNCHANGED <<loadingQueue, shouldStop, loadingThreads, wpc, wtask, cpc, carg, nextId>>
    /\ UNCHANGED <<chunkVars, unitVars>>

\* VoxelWorldManager::clearDirtyFlag
ClearDirtyFlag ==
    /\ CanStart
    /\ \E pos \in MgrChunks :
          /\ heap' = IF getChunk(pos) # 0
                     THEN [heap EXCEPT ![getChunk(pos)].state = ACTIVE]
                     ELSE heap
          /\ ghost' = [Started(ghost, "clearDirtyFlag", pos) EXCEPT
                 !.written = @ \ {pos}, !.scen = NoScenario]
    /\ opCount' = opCount + 1
    /\ UNCHANGED <<activeChunks, svo, loadingQueue, shouldStop, loadingThreads, wpc, wtask,
                   stats, cpc, carg, nextId>>
    /\ UNCHANGED <<chunkVars, unitVars>>

\* VoxelWorldManager::markChunkDirty called by a client
MarkChunkDirty ==
    /\ CanStart
    /\ \E pos \in MgrChunks, dirtyType \in {DIRTY_MESH, DIRTY_PHYSICS, DIRTY_STRUCTURE} :
          /\ heap' = markChunkDirty(heap, pos, dirtyType)
          /\ ghost' = [Started(ghost, "markChunkDirty", pos) EXCEPT !.scen = NoScenario]
    /\ opCount' = opCount + 1
    /\ UNCHANGED <<activeChunks, svo, loadingQueue, shouldStop, loadingThreads, wpc, wtask,
                   stats, cpc, carg, nextId>>
    /\ UNCHANGED <<chunkVars, unitVars>>

\* VoxelWorldManager::compressInactiveChunks
CompressInactiveChunks ==
    /\ CanStart
    /\ heap' = [id \in DOMAIN heap |->
                   IF /\ \E pos \in DOMAIN activeChunks : activeChunks[pos] = id
                      /\ heap[id].state = ACTIVE
                   THEN WorldChunk_compress(heap[id])
                   ELSE heap[id]]
    /\ ghost' = [Started(ghost, "compressInactiveChunks", <<0, 0, 0>>) EXCEPT
                    !.scen = NoScenario]
    /\ opCount' = opCount + 1
    /\ UNCHANGED <<activeChunks, svo, loadingQueue, shouldStop, loadingThreads, wpc, wtask,
                   stats, cpc, carg, nextId>>
    /\ UNCHANGED <<chunkVars, unitVars>>

----------------------------------------------------------------------------
\* VoxelWorldManager: region streaming, eviction and statistics

\* player positions updateActiveRegion is called with: inside chunk (0,0,0)
\* next to its far face, at its middle, and inside chunk (1,0,0)
PlayerPositions ==
    {<<CHUNK_SIZE - 1, 0, 0>>,
     <<CHUNK_SIZE \div 2, CHUNK_SIZE \div 2, CHUNK_SIZE \div 2>>,
     <<2 * CHUNK_SIZE - 1, 0, 0>>}

\* glm::length(chunkToWorld(chunkPos) - playerPosition), squared; voxelSize 1.0
DistanceSq(chunkPos, playerPosition) ==
    LET chunkCenter == toVoxelPos(chunkPos, CHUNK_SIZE)
    IN (chunkCenter[1] - playerPosition[1]) * (chunkCenter[1] - playerPosition[1])
       + (chunkCenter[2] - playerPosition[2]) * (chunkCenter[2] - playerPosition[2])
       + (chunkCenter[3] - playerPosition[3]) * (chunkCenter[3] - playerPosition[3])

\* the chunks the loops of updateActiveRegion call loadChunk for, in loop order
\* (x outermost, z innermost), for radius 0: chunkRadius = 0 / CHUNK_SIZE + 1
RegionLoads(playerPosition) ==
    LET playerChunk == ChunkPosOf(playerPosition, CHUNK_SIZE)
        chunkRadius == (0 \div CHUNK_SIZE) + 1
        n == 2 * chunkRadius + 1
        scanned == [i \in 1..(n * n * n) |->
                       <<playerChunk[1] + ((i - 1) \div (n * n)) - chunkRadius,
                         playerChunk[2] + (((i - 1) \div n) % n) - chunkRadius,
                         playerChunk[3] + ((i - 1) % n) - chunkRadius>>]
        near(c) == DistanceSq(c, playerPosition) <= loadDistance * loadDistance
    IN SelectSeq(scanned, near)

\* the chunks unloadDistantChunks collects
RegionUnloads(table, playerPosition) ==
    {c \in DOMAIN table : DistanceSq(c, playerPosition) > unloadDistance * unloadDistance}

\* the octrees a loop of unloadChunk over the chunks of `set` can leave, the
\* order being that of the unordered_map's iteration
RECURSIVE StoreAll(_, _, _, _)
StoreAll(s, h, table, set) ==
    IF set = {} THEN {s}
    ELSE UNION {StoreAll(storeChunkData(s, p, h[table[p]]), h, table, set \ {p}) : p \in set}

\* n calls of queueCondition.notify_one()
RECURSIVE NotifyMany(_, _)
NotifyMany(pcs, n) ==
    IF n = 0 THEN {pcs}
    ELSE UNION {NotifyMany(q, n - 1) : q \in NotifyOne(pcs)}

\* VoxelWorldManager::updateActiveRegion: loadChunk(chunkPos, NORMAL) for the
\* near chunks, then unloadDistantChunks(playerPosition)
UpdateActiveRegion ==
    /\ CanStart
    /\ \E playerPosition \in PlayerPositions :
          LET notResident(c) == c \notin DOMAIN activeChunks
              fresh == SelectSeq(RegionLoads(playerPosition), notResident)
              n == Len(fresh)
              freshSet == {fresh[k] : k \in 1..n}
              idOf(c) == nextId + (CHOOSE k \in 1..n : fresh[k] = c) - 1
              table1 == [c \in (DOMAIN activeChunks) \cup freshSet |->
                            IF c \in DOMAIN activeChunks THEN activeChunks[c] ELSE idOf(c)]
              heap1 == [i \in (DOMAIN heap) \cup (nextId..(nextId + n - 1)) |->
                           IF i \in DOMAIN heap THEN heap[i]
                           ELSE WorldChunk(fresh[i - nextId + 1])]
              queue1 == loadingQueue
                           \o [k \in 1..n |-> ChunkLoadTask(fresh[k], nextId + k - 1, NORMAL)]
              distant == RegionUnloads(table1, playerPosition)
          IN /\ svo' \in StoreAll(svo, heap1, table1, distant)
             /\ activeChunks' = [c \in (DOMAIN table1) \ distant |-> table1[c]]
             /\ loadingQueue' = queue1
             /\ heap' = Prune(heap1, activeChunks', queue1, wtask)
             /\ stats' = [stats EXCEPT !.pendingLoads = @ + n,
                                       !.activeChunks = @ - Cardinality(distant)]
             /\ nextId' = nextId + n
             /\ wpc' \in NotifyMany(wpc, n)
             /\ ghost' = [Started(ghost, "updateActiveRegion", playerPosition) EXCEPT
                    !.enqueued = @ \cup (nextId..(nextId + n - 1)),
                    !.written = @ \ distant,
                    !.scen = NoScenario]
    /\ opCount' = opCount + 1
    /\ UNCHANGED <<shouldStop, loadingThreads, wtask, cpc, carg>>
    /\ UNCHANGED <<chunkVars, unitVars>>

\* VoxelWorldManager::garbageCollect: the positions of the ACTIVE chunks are
\* collected under queueMutex, and unloadChunk is called for the first half of
\* them in the table's iteration order
GarbageCollect ==
    /\ CanStart
    /\ LET chunksToUnload == {pos \in DOMAIN activeChunks :
                                 heap[activeChunks[pos]].state = ACTIVE}
           unloadCount == Cardinality(chunksToUnload) \div 2
       IN \E unloaded \in SUBSET chunksToUnload :
             /\ Cardinality(unloaded) = unloadCount
             /\ svo' \in StoreAll(svo, heap, activeChunks, unloaded)
             /\ activeChunks' = [c \in (DOMAIN activeChunks) \ unloaded |-> activeChunks[c]]
             /\ heap' = Prune(heap, activeChunks', loadingQueue, wtask)
             /\ stats' = [stats EXCEPT !.activeChunks = @ - unloadCount]
             /\ ghost' = [Started(ghost, "garbageCollect", <<0, 0, 0>>) EXCEPT
                    !.written = @ \ unloaded, !.scen = NoScenario]
    /\ opCount' = opCount + 1
    /\ UNCHANGED <<loadingQueue, shouldStop, loadingThreads, wpc, wtask, cpc, carg, nextId>>
    /\ UNCHANGED <<chunkVars, unitVars>>

\* VoxelWorldManager::update: under statsMutex, activeChunks and loadedChunks
\* are set to the size of the table
Update ==
    /\ cpc = "idle" /\ opCount < MaxOps
    /\ stats' = [stats EXCEPT !.activeChunks = Cardinality(DOMAIN activeChunks),
                              !.loadedChunks = Cardinality(DOMAIN activeChunks)]
    /\ ghost' = [Started(ghost, "update", <<0, 0, 0>>) EXCEPT !.scen = NoScenario]
    /\ opCount' = opCount + 1
    /\ UNCHANGED <<activeChunks, heap, svo, loadingQueue, shouldStop, loadingThreads, wpc,
                   wtask, cpc, carg, nextId>>
    /\ UNCHANGED <<chunkVars, unitVars>>

\* VoxelWorldManager::getStatistics: statsMutex is locked
GetStatisticsLock ==
    /\ cpc = "idle" /\ opCount < MaxOps
    /\ cpc' = "gs_read"
    /\ ghost' = [Started(ghost, "getStatistics", <<0, 0, 0>>) EXCEPT !.scen = NoScenario]
    /\ opCount' = opCount + 1
    /\ UNCHANGED <<activeChunks, heap, svo, loadingQueue, shouldStop, loadingThreads, wpc,
                   wtask, stats, carg, nextId>>
    /\ UNCHANGED <<chunkVars, unitVars>>

\* VoxelWorldManager::getStatistics: stats is copied out, statsMutex released
GetStatisticsRead ==
    /\ cpc = "gs_read"
    /\ cpc' = "idle"
    /\ UNCHANGED <<activeChunks, heap, svo, loadingQueue, shouldStop, loadingThreads, wpc,
                   wtask, stats, carg, opCount, nextId, ghost>>
    /\ UNCHANGED <<chunkVars, unitVars>>

----------------------------------------------------------------------------
\* VoxelWorldManager::chunkLoadingWorker, one thread w

\* while (!shouldStop)
WorkerTop(w) ==
    /\ w \in loadingThreads
    /\ wpc[w] = "top"
    /\ wpc' = [wpc EXCEPT ![w] = IF shouldStop THEN "exited" ELSE "lock"]
    /\ UNCHANGED <<activeChunks, heap, svo, loadingQueue, shouldStop, loadingThreads, wtask,
                   stats, cpc, carg, opCount, nextId, ghost>>
    /\ UNCHANGED <<chunkVars, unitVars>>

\* the lock is taken (or retaken after a wake-up) and the wait predicate
\* evaluated; when it holds: break on shouldStop, else front/pop, pendingLoads--, unlock
WorkerLock(w) ==
    /\ w \in loadingThreads
    /\ wpc[w] = "lock"
    /\ MutexFree
    /\ IF ~(loadingQueue # <<>> \/ shouldStop)
       THEN /\ wpc' = [wpc EXCEPT ![w] = "prewait"]
            /\ UNCHANGED <<loadingQueue, wtask, stats>>
       ELSE IF shouldStop
       THEN /\ wpc' = [wpc EXCEPT ![w] = "exited"]
            /\ UNCHANGED <<loadingQueue, wtask, stats>>
       ELSE /\ wtask' = [wtask EXCEPT ![w] = Head(loadingQueue)]
            /\ loadingQueue' = Tail(loadingQueue)
            /\ stats' = [stats EXCEPT !.pendingLoads = stats.pendingLoads - 1]
            /\ wpc' = [wpc EXCEPT ![w] = "load"]
    /\ UNCHANGED <<activeChunks, heap, svo, shouldStop, loadingThreads,
                   cpc, carg, opCount, nextId, ghost>>
    /\ UNCHANGED <<chunkVars, unitVars>>

\* condition_variable::wait: the predicate was false, the thread releases the
\* lock and blocks
WorkerBlock(w) ==
    /\ w \in loadingThreads
    /\ wpc[w] = "prewait"
    /\ wpc' = [wpc EXCEPT ![w] = "blocked"]
    /\ UNCHANGED <<activeChunks, heap, svo, loadingQueue, shouldStop, loadingThreads, wtask,
                   stats, cpc, carg, opCount, nextId, ghost>>
    /\ UNCHANGED <<chunkVars, unitVars>>

\* condition_variable::wait may return without a notification
SpuriousWake(w) ==
    /\ w \in loadingThreads
    /\ wpc[w] = "blocked"
    /\ wpc' = [wpc EXCEPT ![w] = "lock"]
    /\ UNCHANGED <<activeChunks, heap, svo, loadingQueue, shouldStop, loadingThreads, wtask,
                   stats, cpc, carg, opCount, nextId, ghost>>
    /\ UNCHANGED <<chunkVars, unitVars>>

\* loadChunkFromSVO(task.position, *task.chunk), no lock held
WorkerLoad(w) ==
    /\ w \in loadingThreads
    /\ wpc[w] = "load"
    /\ heap' = [heap EXCEPT ![wtask[w].chunk] =
                    loadChunkData(svo, wtask[w].position, heap[wtask[w].chunk])]
    /\ wpc' = [wpc EXCEPT ![w] = "activate"]
    /\ UNCHANGED <<activeChunks, svo, loadingQueue, shouldStop, loadingThreads, wtask,
                   stats, cpc, carg, opCount, nextId, ghost>>
    /\ UNCHANGED <<chunkVars, unitVars>>

\* task.chunk->setState(ACTIVE); task.promise.set_value(true); the task is destroyed
WorkerActivate(w) ==
    /\ w \in loadingThreads
    /\ wpc[w] = "activate"
    /\ wtask' = [wtask EXCEPT ![w] = NoTask]
    /\ heap' = Prune([heap EXCEPT ![wtask[w].chunk].state = ACTIVE],
                     activeChunks, loadingQueue, wtask')
    /\ wpc' = [wpc EXCEPT ![w] = "top"]
    /\ ghost' = [ghost EXCEPT
           !.completed = @ \cup {wtask[w].chunk},
           !.scen = IF ghost.scen.stage = 3 /\ ghost.scen.id = wtask[w].chunk
                    THEN [ghost.scen EXCEPT !.stage = 4]
                    ELSE @]
    /\ UNCHANGED <<activeChunks, svo, loadingQueue, shouldStop, loadingThreads,
                   stats, cpc, carg, opCount, nextId>>
    /\ UNCHANGED <<chunkVars, unitVars>>

WorkerStep(w) ==
    \/ WorkerTop(w)
    \/ WorkerLock(w)
    \/ WorkerBlock(w)
    \/ WorkerLoad(w)
    \/ WorkerActivate(w)

----------------------------------------------------------------------------
\* VoxelWorldManager: the worker pool's life cycle (calling thread)

\* thread counts setLoadingThreadCount is called with
ThreadCounts == 0..NumWorkers

\* setLoadingThreadCount: shouldStop = true
SetLoadingThreadCountStop ==
    /\ cpc = "idle" /\ opCount < MaxOps
    /\ \E n \in ThreadCounts : carg' = [NoArg EXCEPT !.n = n]
    /\ shouldStop' = TRUE
    /\ cpc' = "stc_notify"
    /\ opCount' = opCount + 1
    /\ ghost' = [Started(ghost, "setLoadingThreadCount", <<0, 0, 0>>) EXCEPT !.scen = NoScenario]
    /\ UNCHANGED <<activeChunks, heap, svo, loadingQueue, loadingThreads, wpc, wtask,
                   stats, nextId>>
    /\ UNCHANGED <<chunkVars, unitVars>>

\* setLoadingThreadCount: queueCondition.notify_all()
SetLoadingThreadCountNotify ==
    /\ cpc = "stc_notify"
    /\ wpc' = NotifyAll(wpc)
    /\ cpc' = "stc_join"
    /\ UNCHANGED <<activeChunks, heap, svo, loadingQueue, shouldStop, loadingThreads, wtask,
                   stats, carg, opCount, nextId, ghost>>
    /\ UNCHANGED <<chunkVars, unitVars>>

\* the mutation: shouldStop is not reset before the new threads start
SetLoadingThreadCountJoin_keepStop ==
    /\ cpc = "stc_join"
    /\ \A w \in loadingThreads : wpc[w] = "exited"
    /\ loadingThreads' = 1..carg.n
    /\ wpc' = [w \in Workers |-> IF w <= carg.n THEN "top" ELSE "none"]
    /\ cpc' = "idle"
    /\ carg' = NoArg
    /\ ghost' = [ghost EXCEPT !.carried = @ \cup {t.chunk : t \in QueuedTasks}]
    /\ UNCHANGED <<activeChunks, heap, svo, loadingQueue, shouldStop, wtask, stats, opCount, nextId>>
    /\ UNCHANGED <<chunkVars, unitVars>>

\* setLoadingThreadCount: every thread joined; loadingThreads.clear();
\* shouldStop = false; threadCount new threads are started
SetLoadingThreadCountJoin ==
    /\ cpc = "stc_join"
    /\ \A w \in loadingThreads : wpc[w] = "exited"
    /\ loadingThreads' = 1..carg.n
    /\ shouldStop' = FALSE
    /\ wpc' = [w \in Workers |-> IF w <= carg.n THEN "top" ELSE "none"]
    /\ cpc' = "idle"
    /\ carg' = NoArg
    /\ ghost' = [ghost EXCEPT !.carried = @ \cup {t.chunk : t \in QueuedTasks}]
    /\ UNCHANGED <<activeChunks, heap, svo, loadingQueue, wtask, stats, opCount, nextId>>
    /\ UNCHANGED <<chunkVars, unitVars>>

\* ~VoxelWorldManager: shouldStop = true
DestructorStop ==
    /\ cpc = "idle"
    /\ shouldStop' = TRUE
    /\ cpc' = "dtor_notify"
    /\ ghost' = [Started(ghost, "destructor", <<0, 0, 0>>) EXCEPT !.scen = NoScenario]
    /\ UNCHANGED <<activeChunks, heap, svo, loadingQueue, loadingThreads, wpc, wtask,
                   stats, carg, opCount, nextId>>
    /\ UNCHANGED <<chunkVars, unitVars>>

\* ~VoxelWorldManager: queueCondition.notify_all()
DestructorNotify ==
    /\ cpc = "dtor_notify"
    /\ wpc' = NotifyAll(wpc)
    /\ cpc' = "dtor_join"
    /\ UNCHANGED <<activeChunks, heap, svo, loadingQueue, shouldStop, loadingThreads, wtask,
                   stats, carg, opCount, nextId, ghost>>
    /\ UNCHANGED <<chunkVars, unitVars>>

\* ~VoxelWorldManager: every thread joined; the members are destroyed
DestructorJoin ==
    /\ cpc = "dtor_join"
    /\ \A w \in loadingThreads : wpc[w] = "exited"
    /\ cpc' = "destroyed"
    /\ UNCHANGED <<activeChunks, heap, svo, loadingQueue, shouldStop, loadingThreads, wpc,
                   wtask, stats, carg, opCount, nextId, ghost>>
    /\ UNCHANGED <<chunkVars, unitVars>>

\* the steps that finish a life-cycle operation the calling thread is inside
CallerContinue ==
    \/ SetLoadingThreadCountNotify
    \/ SetLoadingThreadCountJoin
    \/ DestructorNotify
    \/ DestructorJoin

----------------------------------------------------------------------------
\* Specifications

NextChunk ==
    \/ ChunkSetVoxel
    \/ ChunkSetState
    \/ ChunkCompress
    \/ ChunkDecompress
    \/ ChunkLoadChunkData

SpecChunk == Init /\ [][NextChunk]_vars

Next ==
    \/ LoadChunk
    \/ SetVoxelBegin
    \/ SetVoxelWrite
    \/ SetVoxelMark
    \/ UnloadChunk
    \/ ClearDirtyFlag
    \/ \E w \in Workers : WorkerStep(w)
    \/ \E w \in Workers : SpuriousWake(w)

Spec == Init /\ [][Next]_vars

\* the manager with every operation of its voxel and chunk interface
NextOps ==
    \/ Next
    \/ MarkChunkDirty
    \/ CompressInactiveChunks

SpecOps == Init /\ [][NextOps]_vars

\* the manager with region streaming, garbage collection and statistics
NextMgr ==
    \/ Next
    \/ UpdateActiveRegion
    \/ GarbageCollect
    \/ Update
    \/ GetStatisticsLock
    \/ GetStatisticsRead

SpecMgr == Init /\ [][NextMgr]_vars

\* the manager over a world that already holds persisted data, with no voxel
\* written: loadChunk, unloadChunk and the workers

\* octrees unloadChunk leaves behind after one voxel was written to a chunk:
\* storeChunkData of a chunk holding that voxel into the constructed octree
PersistedWorlds ==
    {storeChunkData(SparseVoxelOctree(SVO_DEPTH), ChunkPosOf(pos, CHUNK_SIZE),
                    WorldChunk_setVoxel(WorldChunk(ChunkPosOf(pos, CHUNK_SIZE)),
                                        LocalPosOf(pos), voxel)) :
        pos \in MgrPositions, voxel \in MgrVoxels}

\* the manager after loadChunk of a chunk has completed, setVoxel(pos, voxel)
\* into it and unloadChunk of it: nothing resident, the workers back at the top
\* of their loop, activeChunks decremented once; operations are counted from here
InitEvict ==
    /\ InitChunk /\ InitSVO /\ InitPalette /\ InitCoord
    /\ activeChunks = EmptyMap
    /\ heap = EmptyMap
    /\ svo \in PersistedWorlds
    /\ loadingQueue = <<>>
    /\ shouldStop = FALSE
    /\ loadingThreads = Workers
    /\ wpc = [w \in Workers |-> "top"]
    /\ wtask = [w \in Workers |-> NoTask]
    /\ stats = [activeChunks |-> -1, loadedChunks |-> 0, pendingLoads |-> 0]
    /\ cpc = "idle"
    /\ carg = NoArg
    /\ opCount = 0
    /\ nextId = 2
    /\ ghost = InitGhost

NextEvict ==
    \/ LoadChunk
    \/ UnloadChunk
    \/ \E w \in Workers : WorkerStep(w)
    \/ \E w \in Workers : SpuriousWake(w)

SpecEvict == InitEvict /\ [][NextEvict]_vars

NextSVO ==
    \/ SvoSetVoxel
    \/ SvoOptimize

SpecSVO == Init /\ [][NextSVO]_vars

NextPalette == PaletteAddMaterial

SpecPalette == Init /\ [][NextPalette]_vars

NextCoord ==
    \/ CoordDraw
    \/ CoordResolve
    \/ CoordInverse

SpecCoord == Init /\ [][NextCoord]_vars

\* the manager with its worker pool resized and torn down; every thread that
\* can take a step is eventually scheduled (no fairness for spurious wake-ups
\* or for the caller starting another operation)
NextLife ==
    \/ LoadChunk
    \/ UnloadChunk
    \/ SetLoadingThreadCountStop
    \/ DestructorStop
    \/ CallerContinue
    \/ \E w \in Workers : WorkerStep(w)
    \/ \E w \in Workers : SpuriousWake(w)

FairSpec ==
    /\ Init
    /\ [][NextLife]_vars
    /\ \A w \in Workers : WF_vars(WorkerStep(w))
    /\ WF_vars(CallerContinue)

----------------------------------------------------------------------------
\* Properties of the manager under Spec

\* C1 (as claimed): eviction durability.  After setVoxel(p, v) with a non-Air
\* voxel at full health, unloadChunk(chunk of p), loadChunk(chunk of p) and the
\* completion of that load, getVoxel(p) returns v.
C1_EvictionDurability ==
    ghost.scen.stage = 4 => Manager_getVoxel(ghost.scen.pos) = ghost.scen.voxel

\* C2 (as claimed): manager round trip.  Once setVoxel(pos, v) has returned,
\* getVoxel(pos) returns v whatever the worker threads do afterwards, until
\* the caller starts its next operation.
C2_ManagerRoundTrip ==
    ghost.lastWrite.valid => Manager_getVoxel(ghost.lastWrite.pos) = ghost.lastWrite.voxel

\* C3 (as claimed): at most one load task per chunk position is in flight
\* (queued or held by a worker that has not finished it).
C3_AtMostOneLoadInFlight ==
    \A t1 \in InFlight, t2 \in InFlight : t1.position = t2.position => t1 = t2

\* C4 (as claimed): a chunk written by setVoxel is reported by
\* getDirtyChunks(DIRTY_MESH) from the return of setVoxel until clearDirtyFlag
\* or unloadChunk is called for it.
C4_WriteLeavesChunkDirty ==
    \A pos \in ghost.written : pos \in getDirtyChunks(DIRTY_MESH)

\* C5 (as claimed): loadChunk on a resident position changes nothing, and a
\* resident chunk whose load task is still queued or running is in state
\* LOADING (never ACTIVE or dirty before its materialization has finished).
C5_LoadingUntilMaterialized ==
    [][/\ (opCount' = opCount + 1 /\ ghost'.lastOp = "loadChunk" /\ ghost'.wasResident)
             => UNCHANGED <<activeChunks, heap, svo, loadingQueue>>
       /\ \A t \in InFlight' :
             (t.position \in DOMAIN activeChunks' /\ activeChunks'[t.position] = t.chunk)
                => heap'[t.chunk].state = LOADING]_vars

\* C6 (as claimed): a worker never dequeues a task while a task of strictly
\* higher priority is waiting in the loading queue.
C6_PriorityOrder ==
    [][\A w \in Workers :
          (wpc[w] = "lock" /\ wpc'[w] = "load")
             => \A i \in 1..Len(loadingQueue') :
                   loadingQueue'[i].priority <= wtask'[w].priority]_vars

----------------------------------------------------------------------------
\* Properties of WorldChunk under SpecChunk

\* C9 (as claimed): WorldChunk::setVoxel(localPos, v) followed by getVoxel(localPos)
\* returns v for every in-range position and every voxel, sparse or dense.
C9_ChunkRoundTrip_AsClaimed ==
    (hist.op = "setVoxel" /\ isValidLocalPos(hist.pos))
       => WorldChunk_getVoxel(chunk, hist.pos) = hist.voxel

\* C9 (amended): after setVoxel(localPos, v) on an in-range position,
\* getVoxel(localPos) returns v in the dense representation and, in the sparse
\* representation, v when v is not Air and the sentinel Voxel(AIR, 0) when v is Air.
C9_ChunkRoundTrip ==
    (hist.op = "setVoxel" /\ isValidLocalPos(hist.pos))
       => WorldChunk_getVoxel(chunk, hist.pos) =
             (IF hist.before.isDense \/ hist.voxel.materialID # AIR
              THEN hist.voxel ELSE airVoxel)

\* C9 witness: an Air voxel that differs from the sentinel was written to a
\* sparse chunk and reads back as the sentinel
C9_Witness ==
    /\ hist.op = "setVoxel" /\ isValidLocalPos(hist.pos)
    /\ ~hist.before.isDense
    /\ hist.voxel.materialID = AIR /\ hist.voxel # airVoxel
    /\ WorldChunk_getVoxel(chunk, hist.pos) = airVoxel

\* compress() was followed directly by decompress()
CompressedThenDecompressed == hist.op = "decompress" /\ hist.prevOp = "compress"

\* compress() on a sparse chunk and decompress() on a dense chunk change nothing
NoOpInTargetRepresentation ==
    /\ (hist.op = "compress" /\ ~hist.before.isDense) => chunk = hist.before
    /\ (hist.op = "decompress" /\ hist.before.isDense) => chunk = hist.before

\* C10 (as claimed): compress() followed by decompress() yields a chunk whose
\* getVoxel equals the pre-compress getVoxel at every local position, for
\* arbitrary contents; both are no-ops in their target representation.
C10_CompressDecompress_AsClaimed ==
    /\ CompressedThenDecompressed => Content(chunk) = Content(hist.before2)
    /\ NoOpInTargetRepresentation

\* C10 (amended): compress() followed by decompress() yields a chunk whose
\* getVoxel equals the pre-compress getVoxel at every position that held a
\* non-Air voxel and is the sentinel Voxel(AIR, 0) at every position that held
\* an Air voxel; both are no-ops in their target representation.
C10_CompressDecompress ==
    /\ CompressedThenDecompressed =>
          \A p \in LocalPositions :
             WorldChunk_getVoxel(chunk, p) =
                (IF WorldChunk_getVoxel(hist.before2, p).materialID # AIR
                 THEN WorldChunk_getVoxel(hist.before2, p) ELSE airVoxel)
    /\ NoOpInTargetRepresentation

\* C10 witness: a dense chunk holding a non-Air voxel and an Air voxel other
\* than the sentinel went through compress(); decompress()
C10_Witness ==
    /\ CompressedThenDecompressed
    /\ hist.before2.isDense
    /\ chunk.isDense
    /\ \E p \in LocalPositions : WorldChunk_getVoxel(hist.before2, p).materialID # AIR
    /\ \E p \in LocalPositions :
          /\ WorldChunk_getVoxel(hist.before2, p).materialID = AIR
          /\ WorldChunk_getVoxel(hist.before2, p) # airVoxel
          /\ WorldChunk_getVoxel(chunk, p) = airVoxel

----------------------------------------------------------------------------
\* Properties of the worker pool under FairSpec

Joining == cpc \in {"stc_join", "dtor_join"}

\* C7 (as claimed): teardown terminates.  Once the stop flag is set and
\* notify_all has been called, every worker leaves its loop and the join of
\* the destructor or of setLoadingThreadCount completes.
C7_TeardownTerminates == Joining ~> ~Joining

TaskIds == 1..MaxOps

\* C8 (as claimed): every task pushed onto the loading queue is eventually
\* dequeued, materialized and its chunk set ACTIVE by a worker.
C8_TaskRunsToCompletion_AsClaimed ==
    \A id \in TaskIds : (id \in ghost.enqueued) ~> (id \in ghost.completed)

\* C8 (amended): every task pushed onto the loading queue is eventually
\* dequeued, materialized and its chunk set ACTIVE by a worker, unless the
\* manager is destroyed or the pool is resized to zero threads.
C8_TaskRunsToCompletion ==
    \A id \in TaskIds :
       (id \in ghost.enqueued)
          ~> (id \in ghost.completed \/ cpc = "destroyed" \/ loadingThreads = {})

\* C8 witness: a task that was still queued when setLoadingThreadCount
\* restarted the pool has been completed by a thread of the new pool
C8_Witness ==
    \E id \in ghost.carried : id \in ghost.completed /\ loadingThreads # {}

----------------------------------------------------------------------------
\* Properties of SparseVoxelOctree under SpecSVO

\* the node at path has all 8 children, each a uniform leaf, all of one material
AllEightUniform(nodes, path) ==
    /\ ~nodes[path].isLeaf
    /\ \A i \in 0..7 :
          /\ getChild(nodes, path, i)
          /\ nodes[Append(path, i)].isLeaf /\ nodes[Append(path, i)].isUniform
          /\ nodes[Append(path, i)].materialID = nodes[Append(path, 0)].materialID

\* the positions of the world that resolve into the subtree of the node at path
Region(s, path) ==
    {pos \in WorldPositions :
        LET r == findNode(s, pos, FALSE)
        IN r.found /\ (r.path = path \/ IsDescendant(path, r.path))}

\* optimize() left getVoxel unchanged in the region of every node that had 8
\* uniform children of one material
MergeKeepsVoxels ==
    treeHist.op = "optimize" =>
       \A path \in DOMAIN treeHist.before.nodes :
          AllEightUniform(treeHist.before.nodes, path) =>
             \A pos \in Region(treeHist.before, path) :
                SVO_getVoxel(tree, pos) = SVO_getVoxel(treeHist.before, pos)

\* C11 (as claimed): after all 8 children of a node have been set to uniform
\* leaves of one material, optimize() leaves getVoxel unchanged in the node's
\* region and getNodeCount() is strictly smaller after the call than before.
C11_OctreeMergeSoundness ==
    /\ MergeKeepsVoxels
    /\ (/\ treeHist.op = "optimize"
        /\ \E path \in DOMAIN treeHist.before.nodes :
              AllEightUniform(treeHist.before.nodes, path))
          => getNodeCount(tree) < getNodeCount(treeHist.before)

----------------------------------------------------------------------------
\* Properties of WorldChunk and SparseVoxelOctree under SpecChunk

\* setVoxel on s at every position outside [0, worldSize)^3 leaves the octree
\* as it was, and with it getVoxel at every position inside
SvoOutOfRangeNoOp(s) ==
    \A q \in SvoCallPositions \ WorldPositions, v \in SvoCallVoxels :
        SVO_setVoxel(s, q, v) = s

\* C12: WorldChunk::setVoxel with a local position outside [0, CHUNK_SIZE)^3
\* leaves getVoxel unchanged at every in-range position and leaves the chunk
\* state unchanged; SparseVoxelOctree::setVoxel with a position outside
\* [0, worldSize)^3 leaves getVoxel unchanged at every in-range position.
C12_OutOfRangeSafety ==
    /\ (hist.op = "setVoxel" /\ ~isValidLocalPos(hist.pos))
          => /\ Content(chunk) = Content(hist.before)
             /\ chunk.state = hist.before.state
    /\ \A s \in SvoSamples \cup {tree} : SvoOutOfRangeNoOp(s)

\* an out-of-range setVoxel of Stone has been made on an ACTIVE chunk that
\* holds a non-Air voxel
C12_Witness ==
    /\ hist.op = "setVoxel"
    /\ ~isValidLocalPos(hist.pos)
    /\ hist.voxel.materialID = STONE
    /\ hist.before.state = ACTIVE
    /\ \E p \in LocalPositions : WorldChunk_getVoxel(hist.before, p).materialID # AIR
    /\ chunk.state = ACTIVE

----------------------------------------------------------------------------
\* Properties of the coordinate conversions under SpecCoord

\* C13 (as claimed): ChunkPos(p, chunkSize) is floor(p / chunkSize) in every
\* component, negative components included; p lies inside the cube
\* [origin, origin + chunkSize)^3 of the chunk it resolves to, where origin is
\* the chunk's toVoxelPos(chunkSize); and the manager's local coordinate of p
\* lies in [0, CHUNK_SIZE).
C13_ChunkResolution ==
    coord.op = "resolve" =>
        LET origin == toVoxelPos(coord.chunkPos, coord.S)
        IN /\ \A i \in 1..3 : coord.chunkPos[i] = coord.p[i] \div coord.S
           /\ \A i \in 1..3 : origin[i] <= coord.p[i] /\ coord.p[i] < origin[i] + coord.S
           /\ isValidLocalPos(coord.localPos)

\* C14 (as claimed): for every ChunkPos c, negative components included, and
\* every chunk size S, ChunkPos(c.toVoxelPos(S), S) == c.
C14_CoordinateInverse_AsClaimed ==
    coord.op = "inverse" => (~coord.trapped /\ coord.back = coord.chunkPos)

\* C14 (amended): for every ChunkPos c, negative components included, and
\* every chunk size S other than 0 such that c.x * S, c.y * S and c.z * S are
\* representable in int32_t, ChunkPos(c.toVoxelPos(S), S) == c.
C14_CoordinateInverse ==
    (/\ coord.op = "inverse"
     /\ coord.S # 0
     /\ NoOverflow(coord.chunkPos, coord.S))
        => (~coord.trapped /\ coord.back = coord.chunkPos)

\* the inverse has been evaluated for a chunk position with negative and
\* positive components and a chunk size above 1, without overflow
C14_Witness ==
    /\ coord.op = "inverse"
    /\ coord.S > 1
    /\ NoOverflow(coord.chunkPos, coord.S)
    /\ \E i \in 1..3 : coord.chunkPos[i] < 0
    /\ \E i \in 1..3 : coord.chunkPos[i] > 0
    /\ ~coord.trapped
    /\ coord.back = coord.chunkPos

----------------------------------------------------------------------------
\* Properties of the chunk state under SpecChunk

\* C15 (as claimed): in every chunk state, needsMeshUpdate() is true iff
\* state >= DIRTY_MESH, needsPhysicsUpdate() iff state >= DIRTY_PHYSICS and
\* needsStructuralAnalysis() iff state >= DIRTY_STRUCTURE, so a higher dirty
\* level satisfies every lower-level predicate too.
C15_DirtyPredicatesFollowOrder ==
    /\ needsMeshUpdate(chunk) <=> chunk.state >= DIRTY_MESH
    /\ needsPhysicsUpdate(chunk) <=> chunk.state >= DIRTY_PHYSICS
    /\ needsStructuralAnalysis(chunk) <=> chunk.state >= DIRTY_STRUCTURE

\* C16: WorldChunk::setVoxel on an in-range local position while the chunk is
\* ACTIVE leaves the chunk in a state >= DIRTY_MESH, and setVoxel on a chunk
\* that is DIRTY_MESH, DIRTY_PHYSICS or DIRTY_STRUCTURE never lowers its state.
C16_SetVoxelDirties ==
    hist.op = "setVoxel" =>
        /\ (isValidLocalPos(hist.pos) /\ hist.before.state = ACTIVE)
              => chunk.state >= DIRTY_MESH
        /\ hist.before.state >= DIRTY_MESH => chunk.state >= hist.before.state

\* an in-range setVoxel of a non-Air voxel has been made on an ACTIVE chunk,
\* which is DIRTY_MESH after it
C16_Witness ==
    /\ hist.op = "setVoxel"
    /\ isValidLocalPos(hist.pos)
    /\ hist.voxel.materialID # AIR
    /\ hist.before.state = ACTIVE
    /\ chunk.state = DIRTY_MESH

----------------------------------------------------------------------------
\* Properties of MaterialPalette under SpecPalette

C18_CustomIdsFromCustomStart ==
    (palHist.op = "addMaterial" /\ ~palHist.threw) =>
        /\ palHist.id >= CUSTOM_START
        /\ palHist.id = CUSTOM_START
                          + (getMaterialCount(palHist.before) - getMaterialCount(MaterialPalette))

\* C19: after any sequence of setVoxel, compress, decompress and loadChunkData,
\* a chunk in sparse representation holds no entry whose materialID is Air.
C19_SparseHoldsNoAir ==
    (~chunk.isDense /\ chunk.hasSparse) =>
        \A p \in DOMAIN chunk.sparseStorage : chunk.sparseStorage[p].materialID # AIR

\* an Air voxel has been written in sparse mode at a position that held an
\* entry, on a chunk that had been compressed from a dense array
C19_Witness ==
    /\ hist.op = "setVoxel"
    /\ hist.voxel.materialID = AIR
    /\ ~hist.before.isDense
    /\ hist.pos \in DOMAIN hist.before.sparseStorage
    /\ hist.pos \notin DOMAIN chunk.sparseStorage
    /\ hist.prevOp = "compress"
    /\ hist.before2.isDense
    /\ \E p \in LocalPositions : hist.before2.denseStorage[getIndex(p)].materialID = AIR

----------------------------------------------------------------------------
\* Properties of VoxelWorldManager under SpecOps

----------------------------------------------------------------------------
\* Further properties of SparseVoxelOctree under SpecSVO

\* C23 (as claimed): optimize() collapses an internal node into a uniform leaf
\* only if all 8 of its children are present and every leaf below it is
\* uniform and of the material the node takes; an internal node with fewer
\* than 8 present children is never collapsed.
C23_MergeNeedsAllEight ==
    treeHist.op = "optimize" =>
        \A path \in DOMAIN treeHist.before.nodes :
            (/\ ~treeHist.before.nodes[path].isLeaf
             /\ path \in DOMAIN tree.nodes
             /\ tree.nodes[path].isLeaf)
               => /\ ChildIndices(treeHist.before.nodes, path) = 0..7
                  /\ \A q \in DOMAIN treeHist.before.nodes :
                        (IsDescendant(path, q) /\ treeHist.before.nodes[q].isLeaf)
                           => /\ treeHist.before.nodes[q].isUniform
                              /\ treeHist.before.nodes[q].materialID
                                    = tree.nodes[path].materialID

\* C26 (as claimed): in an octree modified only through setVoxel (one that
\* holds no non-Air leaf above level 1), setVoxel(p, v) at an in-range p
\* leaves the material getVoxel(q) reads unchanged at every other in-range
\* position q.
C26_SvoWritesAreLocal ==
    (/\ treeHist.op = "setVoxel"
     /\ treeHist.pos \in WorldPositions
     /\ \A path \in DOMAIN treeHist.before.nodes :
           LET node == treeHist.before.nodes[path]
           IN (node.isLeaf /\ node.level > 1) => node.materialID = AIR)
        => \A q \in WorldPositions \ {treeHist.pos} :
              SVO_getVoxel(tree, q).materialID
                 = SVO_getVoxel(treeHist.before, q).materialID

\* C28 (as claimed): when setVoxel(p, v) writes into a region that compress()
\* collapsed into a uniform leaf of material M (a non-Air leaf above level 1),
\* every other position q of the region still reads material M afterwards.
C28_SplitKeepsMaterial ==
    (treeHist.op = "setVoxel" /\ treeHist.pos \in WorldPositions) =>
        LET r == findNode(treeHist.before, treeHist.pos, FALSE)
            merged == treeHist.before.nodes[r.path]
        IN (/\ r.found
            /\ merged.isLeaf /\ merged.isUniform
            /\ merged.level > 1
            /\ merged.materialID # AIR)
              => \A q \in Region(treeHist.before, r.path) \ {treeHist.pos} :
                    SVO_getVoxel(tree, q).materialID = merged.materialID

----------------------------------------------------------------------------
\* Properties of the manager's locking under Spec

\* C24 (as claimed): the octree accesses serialize through one lock, so no
\* thread mutates the octree while another thread is reading it.  A worker at
\* "load" has released queueMutex and is inside loadChunkFromSVO, descending
\* the octree; no step changes the octree while a worker is there.
C24_OctreeAccessSerialized ==
    [][svo' # svo => \A w \in loadingThreads : wpc[w] # "load"]_vars

----------------------------------------------------------------------------
\* Properties of the manager under SpecMgr

\* C21 (as claimed): garbageCollect() unloads exactly floor(n/2) of the n
\* resident chunks whose state is ACTIVE, flushing each of them to the SVO,
\* and never unloads a chunk that is dirty or whose load has not completed.
C21_GarbageCollectHalf ==
    [][(opCount' = opCount + 1 /\ ghost'.lastOp = "garbageCollect") =>
          LET unloaded == (DOMAIN activeChunks) \ (DOMAIN activeChunks')
              n == Cardinality({p \in DOMAIN activeChunks :
                                   heap[activeChunks[p]].state = ACTIVE})
          IN /\ Cardinality(unloaded) = n \div 2
             /\ svo' \in StoreAll(svo, heap, activeChunks, unloaded)
             /\ \A p \in unloaded :
                   /\ heap[activeChunks[p]].state = ACTIVE
                   /\ activeChunks[p] \in ghost.completed
      ]_vars

\* C22 (as claimed): after updateActiveRegion(playerPos, radius), every chunk
\* of the scanned cube whose center (origin + CHUNK_SIZE / 2 on each axis)
\* lies within loadDistance of playerPos is resident; no resident chunk lies
\* beyond unloadDistance (as the manager measures it); no chunk requested by
\* the call was unloaded by it; and the same call made again would request
\* and unload nothing.  Distances are compared squared, centers doubled.
C22_ActiveRegion ==
    [][(opCount' = opCount + 1 /\ ghost'.lastOp = "updateActiveRegion") =>
          LET playerPos == ghost'.lastPos
              playerChunk == ChunkPosOf(playerPos, CHUNK_SIZE)
              scanned == {<<playerChunk[1] + x, playerChunk[2] + y, playerChunk[3] + z>> :
                             x \in -1..1, y \in -1..1, z \in -1..1}
              twice(c, i) == 2 * toVoxelPos(c, CHUNK_SIZE)[i] + CHUNK_SIZE - 2 * playerPos[i]
              centerSq4(c) == twice(c, 1) * twice(c, 1) + twice(c, 2) * twice(c, 2)
                                 + twice(c, 3) * twice(c, 3)
              requested == RegionLoads(playerPos)
              resident(c) == c \in DOMAIN activeChunks'
          IN /\ \A c \in scanned :
                   centerSq4(c) <= 4 * loadDistance * loadDistance => resident(c)
             /\ RegionUnloads(activeChunks', playerPos) = {}
             /\ \A k \in 1..Len(requested) : resident(requested[k])
             /\ SelectSeq(requested, resident) = requested
      ]_vars

\* C25 (as claimed): the statistics counters are read and written only under
\* statsMutex, so getStatistics() never races with loadChunk, unloadChunk or
\* a worker: while getStatistics holds statsMutex and copies stats, no step
\* writes a counter.
C25_StatisticsUnderStatsMutex ==
    [][stats' # stats => cpc # "gs_read"]_vars

\* C29 (as claimed): the number of chunks in the active-chunk table never
\* exceeds maxActiveChunks.
C29_TableWithinMaxActiveChunks ==
    Cardinality(DOMAIN activeChunks) <= maxActiveChunks

\* C30 (as claimed): after every loadChunk, unloadChunk and update call the
\* activeChunks statistic equals the number of entries of the active-chunk
\* table; it is never negative; and pendingLoads always equals the length of
\* the loading queue.
C30_StatisticsTrackTable ==
    /\ (cpc = "idle" /\ ghost.lastOp \in {"loadChunk", "unloadChunk", "update"})
          => stats.activeChunks = Cardinality(DOMAIN activeChunks)
    /\ stats.activeChunks >= 0
    /\ stats.pendingLoads = Len(loadingQueue)


====
